---- MODULE Spec2Model ----
(***************************************************************************)
(* A model of nmrplot (src/src/nmrplot/core.py, src/src/nmrplot/__main__.py) *)
(* : the Spectrum object, its construction pipeline, its public methods and  *)
(* the command line entry point.                                             *)
(*                                                                           *)
(* Numbers.  The program computes with IEEE doubles (numpy float64).  A      *)
(* number is modelled as a pair <<n, d>>: a rational n/d in lowest terms     *)
(* with d > 0, or one of the three special values numpy produces instead of  *)
(* raising: NaN = <<0,0>>, +inf = <<1,0>>, -inf = <<-1,0>>.  Arithmetic is    *)
(* exact on the rationals (rounding error is not modelled) and follows IEEE  *)
(* on the special values (x/0, 0/0, inf*0, comparisons with NaN).            *)
(***************************************************************************)
EXTENDS Integers, Sequences, FiniteSets, TLC

VARIABLES disk, spectrum, calls, call

vars == <<disk, spectrum, calls, call>>

----------------------------------------------------------------------------
(* float64 arithmetic *)

IAbs(i) == IF i < 0 THEN -i ELSE i

RECURSIVE Gcd(_, _)
Gcd(a, b) == IF b = 0 THEN a ELSE Gcd(b, a % b)

Rat(n, d) ==
  LET g == Gcd(IAbs(n), IAbs(d))
      s == IF d < 0 THEN -1 ELSE 1
  IN  <<(s * n) \div g, IAbs(d) \div g>>

Num(i) == <<i, 1>>
Zero == <<0, 1>>
One == <<1, 1>>
NaN == <<0, 0>>
PInf == <<1, 0>>
NInf == <<-1, 0>>

IsNaN(x) == x = NaN
IsFin(x) == x[2] > 0
Sgn(x) == IF x[1] > 0 THEN 1 ELSE IF x[1] < 0 THEN -1 ELSE 0

Neg(x) == <<-x[1], x[2]>>
FAbs(x) == <<IAbs(x[1]), x[2]>>

Add(x, y) ==
  IF IsNaN(x) \/ IsNaN(y) THEN NaN
  ELSE IF ~IsFin(x) /\ ~IsFin(y) THEN (IF x = y THEN x ELSE NaN)
  ELSE IF ~IsFin(x) THEN x
  ELSE IF ~IsFin(y) THEN y
  ELSE LET g == Gcd(x[2], y[2])
           l == (x[2] \div g) * y[2]
       IN  Rat(x[1] * (l \div x[2]) + y[1] * (l \div y[2]), l)

Sub(x, y) == Add(x, Neg(y))

Mul(x, y) ==
  IF IsNaN(x) \/ IsNaN(y) THEN NaN
  ELSE IF ~IsFin(x) \/ ~IsFin(y)
       THEN (IF Sgn(x) = 0 \/ Sgn(y) = 0 THEN NaN ELSE <<Sgn(x) * Sgn(y), 0>>)
  ELSE LET g1 == Gcd(IAbs(x[1]), y[2])
           g2 == Gcd(IAbs(y[1]), x[2])
       IN  <<(x[1] \div g1) * (y[1] \div g2), (x[2] \div g2) * (y[2] \div g1)>>

\* numpy float64 division: a zero divisor gives inf or nan, never an exception
Div(x, y) ==
  IF IsNaN(x) \/ IsNaN(y) THEN NaN
  ELSE IF ~IsFin(y) THEN (IF IsFin(x) THEN Zero ELSE NaN)
  ELSE IF y[1] = 0 THEN (IF Sgn(x) = 0 THEN NaN ELSE <<Sgn(x), 0>>)
  ELSE IF ~IsFin(x) THEN <<Sgn(x) * Sgn(y), 0>>
  ELSE Mul(x, Rat(y[2], y[1]))

Lt(x, y) ==
  IF IsNaN(x) \/ IsNaN(y) THEN FALSE
  ELSE IF ~IsFin(x) /\ ~IsFin(y) THEN x[1] < y[1]
  ELSE IF ~IsFin(x) THEN x[1] < 0
  ELSE IF ~IsFin(y) THEN y[1] > 0
  ELSE Sub(x, y)[1] < 0

Le(x, y) == ~IsNaN(x) /\ ~IsNaN(y) /\ ~Lt(y, x)

RECURSIVE Pow(_, _)
Pow(x, k) == IF k = 0 THEN One ELSE Mul(x, Pow(x, k - 1))

\* floor of a finite number, as an integer
Floor(x) == x[1] \div x[2]

\* integer square root by bisection: lo*lo <= m < hi*hi
RECURSIVE ISqrtIn(_, _, _)
ISqrtIn(m, lo, hi) ==
  IF hi - lo <= 1 THEN lo
  ELSE LET mid == (lo + hi) \div 2
       IN  IF mid * mid <= m THEN ISqrtIn(m, mid, hi) ELSE ISqrtIn(m, lo, mid)

ISqrt(m) == ISqrtIn(m, 0, IF m < 46340 THEN m + 1 ELSE 46340)

\* square root of a finite non-negative number: exact when the number is a
\* square of a rational, else rounded down to a multiple of 1/(1000*d)
Sqrt(x) ==
  IF IsNaN(x) THEN NaN
  ELSE IF ~IsFin(x) THEN (IF x = PInf THEN PInf ELSE NaN)
  ELSE IF x[1] < 0 THEN NaN
  ELSE LET rn == ISqrt(x[1])
           rd == ISqrt(x[2])
       IN  IF rn * rn = x[1] /\ rd * rd = x[2] THEN <<rn, rd>>
           ELSE Rat(ISqrt(x[1] * x[2] * 1000000), x[2] * 1000)

----------------------------------------------------------------------------
(* evaluation helpers: Bind(v, F) is F applied to the value of v, with v     *)
(* evaluated once; Force(q) is the sequence q with its elements computed     *)

Bind(v, F(_)) == CHOOSE r \in {F(x) : x \in {v}} : TRUE
Force(q) == q \o <<>>

----------------------------------------------------------------------------
(* numpy reductions over a flat array (a sequence of numbers) *)

RECURSIVE SumSeq(_)
SumSeq(a) == IF a = <<>> THEN Zero ELSE Add(Head(a), SumSeq(Tail(a)))

HasNonFinite(a) == \E i \in 1..Len(a) : ~IsFin(a[i])

\* ndarray.max() / ndarray.min() of a non-empty array: NaN if any element is
ArrMax(a) ==
  IF \E i \in 1..Len(a) : IsNaN(a[i]) THEN NaN
  ELSE a[CHOOSE i \in 1..Len(a) : \A j \in 1..Len(a) : Le(a[j], a[i])]
ArrMin(a) ==
  IF \E i \in 1..Len(a) : IsNaN(a[i]) THEN NaN
  ELSE a[CHOOSE i \in 1..Len(a) : \A j \in 1..Len(a) : Le(a[i], a[j])]

ArrAbs(a) == [i \in 1..Len(a) |-> FAbs(a[i])]

\* the k-th smallest element (k = 1..Len), i.e. sorted(a)[k-1]
KthSmallest(a, k) ==
  a[CHOOSE i \in 1..Len(a) :
       /\ Cardinality({j \in 1..Len(a) : Lt(a[j], a[i])}) < k
       /\ Cardinality({j \in 1..Len(a) : Le(a[j], a[i])}) >= k]

\* np.quantile(a, q) with the default linear interpolation
Quantile(a, q) ==
  LET pos == Mul(q, Num(Len(a) - 1))
      lo  == Floor(pos)
      fr  == Sub(pos, Num(lo))
      vlo == KthSmallest(a, lo + 1)
      vhi == IF lo + 2 <= Len(a) THEN KthSmallest(a, lo + 2) ELSE vlo
  IN  Add(vlo, Mul(fr, Sub(vhi, vlo)))

\* boolean-mask selection a[mask], order kept
RECURSIVE SelectLt(_, _)
SelectLt(a, q) ==
  IF a = <<>> THEN <<>>
  ELSE IF Lt(Head(a), q) THEN <<Head(a)>> \o SelectLt(Tail(a), q)
  ELSE SelectLt(Tail(a), q)

\* ndarray.std(): population standard deviation; NaN for an empty array
Std(a) ==
  IF a = <<>> THEN NaN
  ELSE Bind(Div(SumSeq(a), Num(Len(a))), LAMBDA mean :
         Sqrt(Div(SumSeq([i \in 1..Len(a) |-> Mul(Sub(a[i], mean), Sub(a[i], mean))]),
                  Num(Len(a)))))

----------------------------------------------------------------------------
(* skimage.exposure.histogram on a float array: nbins equal-width bins      *)
(* between min and max (numpy widens an empty range by 0.5 on each side),   *)
(* returning the counts and the bin centres.  The histogram is held as the  *)
(* range and the bin each point falls in; HistCounts and HistBins read the  *)
(* two returned arrays off it.                                              *)

NBins == 256

\* 0-based index of the bin x falls in; the last bin is closed on the right
BinIndex(x, first, last) ==
  LET k == Floor(Div(Mul(Sub(x, first), Num(NBins)), Sub(last, first)))
  IN  IF k >= NBins THEN NBins - 1 ELSE k

BinCenter(k, first, last) ==
  Add(first, Div(Mul(Num(2 * k + 1), Sub(last, first)), Num(2 * NBins)))

\* ok = FALSE stands for the ValueError numpy raises on NaN or infinite data
histogram(a) ==
  IF HasNonFinite(a)
  THEN [ok |-> FALSE, first |-> NaN, last |-> NaN, idx |-> <<>>]
  ELSE Bind(<<ArrMin(a), ArrMax(a)>>, LAMBDA m :
       Bind(IF m[1] = m[2] THEN <<Sub(m[1], <<1, 2>>), Add(m[2], <<1, 2>>)>> ELSE m,
            LAMBDA r :
              [ok |-> TRUE, first |-> r[1], last |-> r[2],
               idx |-> Force([i \in 1..Len(a) |-> BinIndex(a[i], r[1], r[2])])]))

\* counts[k] and bins[k] for the 0-based bin k
HistCounts(h, k) == Cardinality({i \in 1..Len(h.idx) : h.idx[i] = k})
HistBins(h, k) == BinCenter(k, h.first, h.last)

\* np.argmax(counts): the first bin holding the largest count.  That bin
\* holds a point, so the search runs over the bins the points fall in.
ArgMaxCounts(h) ==
  LET occupied == {h.idx[i] : i \in 1..Len(h.idx)}
  IN  CHOOSE k \in occupied :
        \A j \in occupied :
           \/ HistCounts(h, j) < HistCounts(h, k)
           \/ HistCounts(h, j) = HistCounts(h, k) /\ k <= j

----------------------------------------------------------------------------
(* the Spectrum object.  `has` is the set of attributes assigned so far;    *)
(* exc is the exception that ended the running call (type "none": none),    *)
(* stdout the kinds of message printed, fig the figure shown.  thr_sign     *)
(* records the value of self.sign that calc_threshold branched on.          *)

Signs == {"positive", "negative", "both"}

NoExc == [type |-> "none", msg |-> "", value |-> ""]
UnknownSign(sign) ==
  [type |-> "ValueError", msg |-> "Unknown sign; valid: negative, positive or both",
   value |-> sign]
RangeNotFinite == [type |-> "ValueError", msg |-> "autodetected range is not finite", value |-> ""]
EmptyReduction == [type |-> "ValueError", msg |-> "zero-size array to reduction operation", value |-> ""]
InvalidLimits == [type |-> "ValueError", msg |-> "Invalid vmin or vmax", value |-> ""]
UnknownCmap(c) == [type |-> "KeyError", msg |-> "cmapdict", value |-> c]
UnboundFig == [type |-> "UnboundLocalError", msg |-> "fig referenced before assignment", value |-> ""]

Blank ==
  [has |-> {}, data |-> <<>>, shape |-> <<>>, udic |-> <<>>, ndim |-> 0,
   sign |-> "", normalized |-> FALSE, label |-> <<>>, sw |-> <<>>, obs |-> <<>>,
   freq |-> <<>>, ppm_ranges |-> <<>>, points |-> <<>>, ppm_meshgrid |-> <<>>,
   baseline |-> Zero, signal |-> Zero, noise |-> Zero, snr |-> Zero,
   threshold |-> Zero, clevs |-> <<>>, thr_sign |-> "",
   exc |-> NoExc, stdout |-> {}, fig |-> "none"]

Raised(s) == s.exc.type # "none"
Raise(s, e) == [s EXCEPT !.exc = e]
\* the next statement of a method body: skipped once an exception is raised
Then(s, Op(_)) == Bind(s, LAMBDA x : IF Raised(x) THEN x ELSE Op(x))

Reversed(q) == [k \in 1..Len(q) |-> q[Len(q) + 1 - k]]

\* ng.fileiobase.uc_from_udic(udic, dim).ppm_limits(): (ppm(0), ppm(size-1))
\* with ppm(i) = car/obs + sw/(2*obs) - i*sw/(size*obs)
ppm_limits(u) ==
  LET first == Add(Div(u.car, u.obs), Div(u.sw, Mul(Num(2), u.obs)))
      delta == Neg(Div(u.sw, Mul(Num(u.size), u.obs)))
  IN  <<first, Add(first, Mul(Num(u.size - 1), delta))>>

\* mutant: the dimensions taken in the file's order, not reversed
get_ppm_ranges_unreversed(s) ==
  LET lims == [k \in 1..s.ndim |-> ppm_limits(s.udic[k])]
  IN  [s EXCEPT !.ppm_ranges = [j \in 1..(2 * s.ndim) |->
                                  lims[(j + 1) \div 2][2 - (j % 2)]],
                !.has = @ \cup {"ppm_ranges"}]

get_ppm_ranges(s) ==
  LET lims == [k \in 1..s.ndim |-> ppm_limits(s.udic[s.ndim + 1 - k])]
  IN  [s EXCEPT !.ppm_ranges = [j \in 1..(2 * s.ndim) |->
                                  lims[(j + 1) \div 2][2 - (j % 2)]],
                !.has = @ \cup {"ppm_ranges"}]

get_points(s) ==
  [s EXCEPT !.points = Reversed(s.shape), !.has = @ \cup {"points"}]

\* np.linspace(a, b, n)
linspace(a, b, n) ==
  [i \in 1..n |-> IF n = 1 THEN a
                  ELSE Add(a, Div(Mul(Num(i - 1), Sub(b, a)), Num(n - 1)))]

\* np.meshgrid(xs, ys): two arrays of shape (len ys, len xs)
meshgrid(xs, ys) ==
  << [i \in 1..Len(ys) |-> xs], [i \in 1..Len(ys) |-> [j \in 1..Len(xs) |-> ys[i]]] >>

\* np.array_split(q, 2): the first part takes the extra element
ArraySplit2(q) ==
  LET h == (Len(q) + 1) \div 2
  IN  << SubSeq(q, 1, h), SubSeq(q, h + 1, Len(q)) >>

calc_ppm_meshgrid(s) ==
  IF s.ndim = 1
  THEN [s EXCEPT !.ppm_meshgrid =
                    <<linspace(s.ppm_ranges[1], s.ppm_ranges[2], s.points[1])>>,
                 !.has = @ \cup {"ppm_meshgrid"}]
  ELSE LET halves == ArraySplit2(s.ppm_ranges)
           \* zip(self.points, ppm_ranges) stops at the shorter: two pairs
           arrs   == [k \in 1..2 |->
                        linspace(halves[k][1], halves[k][2], s.points[k])]
       IN  [s EXCEPT !.ppm_meshgrid = meshgrid(arrs[1], arrs[2]),
                     !.has = @ \cup {"ppm_meshgrid"}]

calc_histogram(s) == histogram(s.data)

calc_baseline(s) ==
  Bind(calc_histogram(s), LAMBDA h :
    IF ~h.ok THEN Raise(s, RangeNotFinite)
    ELSE [s EXCEPT !.baseline = HistBins(h, ArgMaxCounts(h)),
                   !.has = @ \cup {"baseline"}])

normalize_data(s) ==
  Then([s EXCEPT !.data = Force([i \in 1..Len(s.data) |->
                     Div(Sub(s.data[i], s.baseline), FAbs(s.baseline))])],
       LAMBDA s1 : Then(calc_baseline(s1),
                        LAMBDA s2 : [s2 EXCEPT !.normalized = TRUE]))

QuantileQ == <<1, 10>>

\* mutant: the signal taken as the algebraic maximum, without abs()
calc_signal_to_noise_no_abs(s) ==
  Bind(ArrMax(s.data), LAMBDA signal :
    Bind(SelectLt(s.data, Quantile(s.data, QuantileQ)), LAMBDA empty :
      Bind(Std(empty), LAMBDA noise :
        [s EXCEPT !.signal = signal, !.noise = noise, !.snr = Div(signal, noise),
                  !.has = @ \cup {"signal", "noise", "snr"}])))

calc_signal_to_noise(s) ==
  Bind(ArrMax(ArrAbs(s.data)), LAMBDA signal :
    Bind(SelectLt(s.data, Quantile(s.data, QuantileQ)), LAMBDA empty :
      Bind(Std(empty), LAMBDA noise :
        [s EXCEPT !.signal = signal, !.noise = noise, !.snr = Div(signal, noise),
                  !.has = @ \cup {"signal", "noise", "snr"}])))

DefaultFraction == <<1, 100>>

calc_threshold(s, signal_fraction) ==
  IF s.sign = "both"
  THEN [s EXCEPT !.threshold = Div(Mul(s.signal, signal_fraction), s.noise),
                 !.thr_sign = s.sign, !.has = @ \cup {"threshold"}]
  ELSE IF s.sign = "positive"
  THEN [s EXCEPT !.threshold = Div(Mul(ArrMax(s.data), signal_fraction), s.noise),
                 !.thr_sign = s.sign, !.has = @ \cup {"threshold"}]
  ELSE IF s.sign = "negative"
  THEN [s EXCEPT !.threshold = Div(FAbs(Mul(ArrMin(s.data), signal_fraction)), s.noise),
                 !.thr_sign = s.sign, !.has = @ \cup {"threshold"}]
  ELSE Raise(s, UnknownSign(s.sign))

\* start_clev * factor ** np.arange(nlevs)
GeomLevels(start, factor, nlevs) ==
  Force([k \in 1..nlevs |-> Mul(start, Pow(factor, k - 1))])

NegFlip(q) == [k \in 1..Len(q) |-> Neg(q[Len(q) + 1 - k])]

calc_clevs(s, nlevs, factor) ==
  Bind(Add(s.baseline, Mul(s.threshold, s.noise)), LAMBDA start_clev :
    IF s.sign = "both"
    THEN Bind(GeomLevels(start_clev, factor, nlevs), LAMBDA positive_clevs :
           [s EXCEPT !.clevs = NegFlip(positive_clevs) \o positive_clevs,
                     !.stdout = @ \cup {"Highest negative/lowest positive contour levels"},
                     !.has = @ \cup {"clevs"}])
    ELSE IF s.sign = "positive"
    THEN [s EXCEPT !.clevs = GeomLevels(start_clev, factor, nlevs),
                   !.stdout = @ \cup {"Lowest positive contour level"},
                   !.has = @ \cup {"clevs"}]
    ELSE IF s.sign = "negative"
    THEN [s EXCEPT !.clevs = NegFlip(GeomLevels(start_clev, factor, nlevs)),
                   !.stdout = @ \cup {"Highest negative contour level"},
                   !.has = @ \cup {"clevs"}]
    ELSE Raise(s, UnknownSign(s.sign)))

\* Spectrum.__init__(expno_path, pdata, normalize, sign) on the experiment d
\* that load_bruker / guess_udic read from expno_path
Spectrum(d, normalize, sign) ==
  LET ndim == Len(d.shape)
      s0 == [Blank EXCEPT !.data = d.data, !.shape = d.shape, !.udic = d.udic,
                          !.ndim = ndim, !.sign = sign, !.normalized = FALSE,
                          !.label = [k \in 1..ndim |-> d.udic[ndim + 1 - k].label],
                          !.sw    = [k \in 1..ndim |-> d.udic[ndim + 1 - k].sw],
                          !.obs   = [k \in 1..ndim |-> d.udic[ndim + 1 - k].obs],
                          !.freq  = [k \in 1..ndim |-> d.udic[ndim + 1 - k].freq],
                          !.has = {"data", "udic", "ndim", "sign", "normalized",
                                   "label", "sw", "obs", "freq"}]
  IN  Then(Then(Then(Then(Then(Then(Then(s0,
        get_ppm_ranges),
        get_points),
        calc_baseline),
        LAMBDA x : IF normalize THEN normalize_data(x) ELSE x),
        calc_signal_to_noise),
        LAMBDA x : calc_threshold(x, DefaultFraction)),
        calc_ppm_meshgrid)

cmapdict ==
  {"red", "blue", "green", "purple", "orange", "grey", "light_red",
   "light_blue", "viridis", "coolwarm"}

\* what matplotlib's LogNorm needs of its limits to map data
LogLimitsValid(vmin, vmax) == IsFin(vmin) /\ IsFin(vmax) /\ Lt(Zero, vmin) /\ Le(vmin, vmax)
\* and SymLogNorm of its linear threshold and limits
SymLogLimitsValid(linthresh, vmin, vmax) ==
  IsFin(linthresh) /\ Lt(Zero, linthresh) /\ IsFin(vmin) /\ IsFin(vmax) /\ Le(vmin, vmax)

\* the contour branch of plot_spectrum after calc_clevs has run.  Whether the
\* renderer rejects limits it cannot normalise depends on the matplotlib at
\* hand: `lenient` is that choice.
PlotContour(s, cmap, lenient) ==
  IF s.clevs = <<>> THEN Raise(s, EmptyReduction)
  ELSE LET vmin == ArrMin(s.clevs)
           vmax == ArrMax(s.clevs)
           drawn == [s EXCEPT !.fig = "contour", !.stdout = @ \cup {"Plotting contour levels"}]
       IN  IF s.sign = "both"
           THEN IF SymLogLimitsValid(Mul(s.threshold, s.noise), vmin, vmax) \/ lenient
                THEN drawn ELSE Raise(s, InvalidLimits)
           ELSE IF s.sign = "positive"
           THEN IF cmap \notin cmapdict THEN Raise(s, UnknownCmap(cmap))
                ELSE IF LogLimitsValid(vmin, vmax) \/ lenient
                THEN drawn ELSE Raise(s, InvalidLimits)
           ELSE \* "negative": calc_clevs has raised on any other sign
                IF cmap \notin cmapdict THEN Raise(s, UnknownCmap(cmap))
                ELSE IF LogLimitsValid(FAbs(vmax), FAbs(vmin)) \/ lenient
                THEN drawn ELSE Raise(s, InvalidLimits)

plot_spectrum(s, nlevs, factor, cmap, lenient) ==
  IF s.ndim = 1
  THEN [s EXCEPT !.fig = "line"]
  ELSE IF s.ndim = 2
  THEN Then(calc_clevs(s, nlevs, factor), LAMBDA x : PlotContour(x, cmap, lenient))
  ELSE \* prints, then `return fig, ax` with neither bound
       Raise([s EXCEPT !.stdout = @ \cup {"The spectrum is not 1D or 2D"}], UnboundFig)

\* the value click passes for an option that was not given
None == <<>>

\* __main__.main after `spectrum = core.Spectrum(path, pdata)` has returned
MainLoaded(spectrum0, threshold, cmap, nlevs, sign, factor, lenient) ==
  Bind([spectrum0 EXCEPT
          !.sign = sign,
          !.threshold = IF threshold # None /\ threshold # Zero THEN threshold ELSE @,
          !.stdout = @ \cup {"Loaded spectrum"}],
       LAMBDA s : plot_spectrum(s, nlevs, factor, cmap, lenient))

----------------------------------------------------------------------------
(* the experiments on disk and the arguments callers pass *)

MaxCalls == 1
MaxNlevs == 2

\* per-dimension parameters guess_udic reads from the Bruker files
Axis1H  == [label |-> "1H",  sw |-> Num(6000),  obs |-> Num(600), car |-> Num(2820), freq |-> TRUE]
Axis15N == [label |-> "15N", sw |-> Num(1800),  obs |-> Num(60),  car |-> Num(7080), freq |-> TRUE]
Axis13C == [label |-> "13C", sw |-> Num(15000), obs |-> Num(150), car |-> Num(6000), freq |-> TRUE]

AxesFor(ndim) ==
  IF ndim = 1 THEN {<<Axis1H>>, <<Axis13C>>}
  ELSE IF ndim = 2 THEN {<<Axis15N, Axis1H>>, <<Axis1H, Axis1H>>}
  ELSE {<<Axis13C, Axis15N, Axis1H>>}

\* two low points, a flat bulk and one peak: 12 intensities
Sample(a, b, c, p) ==
  <<Num(a), Num(b)>> \o [i \in 1..9 |-> Num(c)] \o <<Num(p)>>

Intensities ==
  { Sample(-2, 0, 1, 510),          \* positive baseline, positive peak
    Sample(-510, -508, 1, 2),       \* the largest excursion is negative
    Sample(-1022, -1018, -1000, 2), \* negative baseline
    Sample(-3, -1, 0, 509),         \* baseline exactly zero
    Sample(0, 1, 1, 512),           \* a single point below the first decile
    Sample(1, 1, 1, 1) }            \* flat

Shapes == {<<12>>, <<3, 4>>, <<2, 2, 3>>}

\* the 1-D array of nine points with one peak
NinePoints == [i \in 1..9 |-> IF i = 5 THEN Num(100) ELSE Zero]

Experiment(data, shape, axes) ==
  [data |-> data, shape |-> shape,
   udic |-> [i \in 1..Len(shape) |->
               [label |-> axes[i].label, sw |-> axes[i].sw, obs |-> axes[i].obs,
                car |-> axes[i].car, freq |-> axes[i].freq, size |-> shape[i]]]]

Experiments ==
  UNION { { Experiment(v, sh, ax) : v \in Intensities, ax \in AxesFor(Len(sh)) } :
          sh \in Shapes }
  \cup { Experiment(NinePoints, <<9>>, ax) : ax \in AxesFor(1) }

NlevsArgs == 0..MaxNlevs
FactorArgs == {<<1, 2>>, One, <<11, 10>>}
FractionArgs == {DefaultFraction, <<1, 10>>}
SignArgs == Signs \cup {"up"}
CmapArgs == {"viridis", "jet"}
ThresholdArgs == {None, Num(5)}

NoArgs == [nlevs |-> 0, factor |-> Zero, normalize |-> FALSE, threshold |-> None]
Called(op) == [op |-> op] @@ NoArgs

----------------------------------------------------------------------------
(* the state machine: disk is the experiment at expno_path, spectrum the    *)
(* Spectrum object, call the last call made with its arguments and calls    *)
(* the number of method calls made on the object since its construction     *)

Init ==
  /\ disk \in Experiments
  /\ spectrum = Blank
  /\ calls = 0
  /\ call = Called("none")

\* a script builds the object: Spectrum(path, normalize=..., sign=...)
Construct ==
  /\ call.op = "none"
  /\ \E normalize \in BOOLEAN, sign \in SignArgs :
     /\ spectrum' = Spectrum(disk, normalize, sign)
     /\ call' = [Called("Spectrum") EXCEPT !.normalize = normalize]
     /\ UNCHANGED <<disk, calls>>

\* the command line: python -m nmrplot PATH [-t ..] [-c ..] [-n ..] [-f ..] [-s ..]
Main ==
  /\ call.op = "none"
  /\ \E spectrum0 \in {Spectrum(disk, TRUE, "positive")} :
     \E threshold \in ThresholdArgs, cmap \in CmapArgs, nlevs \in NlevsArgs,
        sign \in SignArgs, factor \in FactorArgs, lenient \in BOOLEAN :
     /\ spectrum' = IF Raised(spectrum0) THEN spectrum0
                    ELSE MainLoaded(spectrum0, threshold, cmap, nlevs, sign, factor, lenient)
     /\ call' = [op |-> "main", nlevs |-> nlevs, factor |-> factor,
                 normalize |-> TRUE, threshold |-> threshold]
     /\ UNCHANGED <<disk, calls>>

\* an object exists, no exception has ended the script, and the script goes on
Live ==
  /\ call.op \notin {"none", "main"}
  /\ ~Raised(spectrum)
  /\ calls < MaxCalls

Method(op, s) ==
  /\ Live
  /\ spectrum' = s
  /\ call' = Called(op)
  /\ calls' = calls + 1
  /\ UNCHANGED disk

GetPpmRanges == Method("get_ppm_ranges", get_ppm_ranges(spectrum))
GetPoints == Method("get_points", get_points(spectrum))
CalcPpmMeshgrid == Method("calc_ppm_meshgrid", calc_ppm_meshgrid(spectrum))
CalcBaseline == Method("calc_baseline", calc_baseline(spectrum))
NormalizeData == Method("normalize_data", normalize_data(spectrum))
CalcSignalToNoise == Method("calc_signal_to_noise", calc_signal_to_noise(spectrum))

CalcThreshold ==
  \E signal_fraction \in FractionArgs :
     Method("calc_threshold", calc_threshold(spectrum, signal_fraction))

CalcClevs ==
  \E nlevs \in NlevsArgs, factor \in FactorArgs :
     /\ Live
     /\ spectrum' = calc_clevs(spectrum, nlevs, factor)
     /\ call' = [Called("calc_clevs") EXCEPT !.nlevs = nlevs, !.factor = factor]
     /\ calls' = calls + 1
     /\ UNCHANGED disk

PlotSpectrum ==
  \E nlevs \in NlevsArgs, factor \in FactorArgs, cmap \in CmapArgs, lenient \in BOOLEAN :
     /\ Live
     /\ spectrum' = plot_spectrum(spectrum, nlevs, factor, cmap, lenient)
     /\ call' = [Called("plot_spectrum") EXCEPT !.nlevs = nlevs, !.factor = factor]
     /\ calls' = calls + 1
     /\ UNCHANGED disk

Next ==
  \/ Construct
  \/ Main
  \/ GetPpmRanges
  \/ GetPoints
  \/ CalcPpmMeshgrid
  \/ CalcBaseline
  \/ NormalizeData
  \/ CalcSignalToNoise
  \/ CalcThreshold
  \/ CalcClevs
  \/ PlotSpectrum

Spec == Init /\ [][Next]_vars

----------------------------------------------------------------------------
(* vocabulary of the properties *)

Has(attr) == attr \in spectrum.has
Data == spectrum.data
AfterInit == call.op = "Spectrum"
Rendering == call.op \in {"plot_spectrum", "main"}

\* the error classes of the design, as the exceptions the code has for them
IsInvalidSignError(e) ==
  /\ e.type \in {"ValueError", "InvalidSignError"}
  /\ e.msg = "Unknown sign; valid: negative, positive or both"
  /\ e.value = spectrum.sign
IsError(e, class) == e.type = class

PositiveNoise == IsFin(spectrum.noise) /\ Lt(Zero, spectrum.noise)

StartLevel == Add(spectrum.baseline, Mul(spectrum.threshold, spectrum.noise))

\* the baseline estimate of the array as read from disk
DiskBaseline == HistBins(histogram(disk.data), ArgMaxCounts(histogram(disk.data)))

Tolerance == <<1, 1000>>

StrictlyIncreasing(q) == \A i \in 1..(Len(q) - 1) : Lt(q[i], q[i + 1])

----------------------------------------------------------------------------
C2_SignFixedPerAnalysis ==
  (Has("clevs") /\ ~Raised(spectrum)
     /\ ~(call.op = "main" /\ call.threshold \notin {None, Zero})) =>
     /\ spectrum.sign = spectrum.thr_sign
     /\ \E f \in FractionArgs :
          spectrum.threshold =
            IF spectrum.sign = "positive" THEN Div(Mul(ArrMax(Data), f), spectrum.noise)
            ELSE IF spectrum.sign = "negative"
                 THEN Div(FAbs(Mul(ArrMin(Data), f)), spectrum.noise)
            ELSE Div(Mul(spectrum.signal, f), spectrum.noise)

\* C3: with a sign outside {positive, negative, both}, construction fails with
\* the invalid-sign error (once it gets as far as the threshold) and leaves no
\* threshold, and a render or contour-level request on a spectrum of rank 1 or
\* 2 fails with it, leaving no contour levels and no plot.
C3_InvalidSignRejected ==
  (spectrum.sign \notin Signs /\ call.op # "none") =>
     /\ AfterInit =>
          /\ Raised(spectrum) /\ ~Has("threshold")
          /\ Has("noise") => IsInvalidSignError(spectrum.exc)
     /\ ((Rendering \/ call.op = "calc_clevs") /\ spectrum.ndim \in {1, 2}) =>
          /\ IsInvalidSignError(spectrum.exc)
          /\ ~Has("clevs")
          /\ spectrum.fig = "none"

\* C4: calc_clevs on a constructed analysis (its noise a positive number)
\* with sign both, nlevs >= 1 and factor > 1 gives 2*nlevs levels: nlevs strictly increasing negative ones,
\* then nlevs strictly increasing positive ones, level[i] = -level[2n+1-i],
\* the innermost pair being -startLevel, +startLevel.
C4_BothLadder ==
  (call.op = "calc_clevs" /\ spectrum.sign = "both" /\ PositiveNoise
     /\ call.nlevs >= 1 /\ Lt(One, call.factor)) =>
     LET n == call.nlevs
         c == spectrum.clevs
     IN  /\ Has("clevs") /\ Len(c) = 2 * n
         /\ StrictlyIncreasing(c)
         /\ \A i \in 1..n : Lt(c[i], Zero) /\ Lt(Zero, c[n + i])
         /\ \A i \in 1..(2 * n) : c[i] = Neg(c[2 * n + 1 - i])
         /\ c[n] = Neg(StartLevel) /\ c[n + 1] = StartLevel

\* C5: calc_clevs on a constructed analysis (normalized or not, its noise a
\* positive number) with sign positive or negative, nlevs >= 1 and factor > 1 gives nlevs levels,
\* strictly monotonic, consecutive ones in ratio factor; positive: all
\* positive, starting at startLevel; negative: all negative, the positive
\* sequence negated and reversed.
C5_OneSidedLadder ==
  (call.op = "calc_clevs" /\ spectrum.sign \in {"positive", "negative"}
     /\ PositiveNoise
     /\ call.nlevs >= 1 /\ Lt(One, call.factor)) =>
     LET n == call.nlevs
         c == spectrum.clevs
     IN  /\ Has("clevs") /\ Len(c) = n
         /\ StrictlyIncreasing(c)
         /\ spectrum.sign = "positive" =>
              /\ c[1] = StartLevel
              /\ \A i \in 1..n : Lt(Zero, c[i])
              /\ \A i \in 1..(n - 1) : c[i + 1] = Mul(c[i], call.factor)
         /\ spectrum.sign = "negative" =>
              /\ c[n] = Neg(StartLevel)
              /\ \A i \in 1..n : Lt(c[i], Zero)
              /\ \A i \in 1..(n - 1) : c[i] = Mul(c[i + 1], call.factor)

\* C6: contour-level generation asked with factor <= 1 or nlevs < 1, directly
\* or through plot_spectrum or the command line on a loaded 2-D spectrum,
\* fails with InvalidParameterError and stores no ladder.
C6_BadParametersRejected ==
  ( /\ \/ call.op = "calc_clevs"
       \/ call.op = "plot_spectrum" /\ spectrum.ndim = 2
       \/ call.op = "main" /\ spectrum.ndim = 2 /\ "Loaded spectrum" \in spectrum.stdout
    /\ (call.nlevs < 1 \/ Le(call.factor, One)) ) =>
     /\ IsError(spectrum.exc, "InvalidParameterError")
     /\ ~Has("clevs")

\* C7: construction never divides by zero: a zero baseline under normalize
\* fails with DegenerateBaselineError leaving data as read; a zero or
\* undefined noise fails with DegenerateNoiseError leaving no snr and no
\* threshold; the un-normalized nine-point array gives baseline 0, signal 100
\* and DegenerateNoiseError.
C7_DegenerateDenominators ==
  AfterInit =>
     /\ (call.normalize /\ DiskBaseline = Zero) =>
          /\ IsError(spectrum.exc, "DegenerateBaselineError")
          /\ Data = disk.data
     /\ (Has("noise") /\ (spectrum.noise = Zero \/ IsNaN(spectrum.noise))) =>
          /\ IsError(spectrum.exc, "DegenerateNoiseError")
          /\ ~Has("snr") /\ ~Has("threshold")
     /\ (disk.data = NinePoints /\ ~call.normalize) =>
          /\ spectrum.baseline = Zero
          /\ spectrum.signal = Num(100)
          /\ IsError(spectrum.exc, "DegenerateNoiseError")

\* C8: for an array whose baseline is positive, every normalize_data call
\* leaves normalized true and the baseline within the tolerance of 0, and a
\* call on an already normalized analysis leaves data and baseline unchanged.
C8_NormalizeIdempotent ==
  [][ (call'.op = "normalize_data" /\ Lt(Zero, DiskBaseline)) =>
        /\ ~Raised(spectrum')
        /\ spectrum'.normalized
        /\ Le(FAbs(spectrum'.baseline), Tolerance)
        /\ spectrum.normalized =>
             /\ spectrum'.data = spectrum.data
             /\ spectrum'.baseline = spectrum.baseline ]_vars

\* C9: a spectrum of rank other than 1 or 2 gets no coordinate grid and no
\* contour levels, and every stage that assumes rank 1 or 2 reports
\* UnsupportedRankError.
C9_UnsupportedRankReported ==
  (call.op # "none" /\ spectrum.ndim \notin {1, 2}) =>
     /\ ~Has("ppm_meshgrid") /\ ~Has("clevs")
     /\ (AfterInit \/ Rendering \/ call.op = "calc_ppm_meshgrid") =>
          IsError(spectrum.exc, "UnsupportedRankError")

\* C10: for an analysis of rank N in {1, 2}, ppm_ranges holds 2*N bounds, a
\* (high, low) pair per dimension with high > low, the k-th pair being that of
\* the k-th dimension counted from the directly detected (last) one, which is
\* the order of label, sw, obs, freq and points, each of length N.
C10_PpmRanges ==
  (Has("ppm_ranges") /\ Has("points") /\ spectrum.ndim \in {1, 2}) =>
     LET n == spectrum.ndim
         r == spectrum.ppm_ranges
     IN  /\ Len(r) = 2 * n
         /\ Len(spectrum.label) = n /\ Len(spectrum.sw) = n /\ Len(spectrum.obs) = n
         /\ Len(spectrum.freq) = n /\ Len(spectrum.points) = n
         /\ \A k \in 1..n :
              LET u == disk.udic[n + 1 - k]
              IN  /\ Lt(r[2 * k], r[2 * k - 1])
                  \* the pair spans sw/obs less one point, centred half a point
                  \* above car/obs
                  /\ Sub(r[2 * k - 1], r[2 * k])
                       = Div(Mul(u.sw, Num(u.size - 1)), Mul(u.obs, Num(u.size)))
                  /\ r[2 * k - 1] = Add(Div(u.car, u.obs), Div(u.sw, Mul(Num(2), u.obs)))
                  /\ spectrum.label[k] = u.label /\ spectrum.sw[k] = u.sw
                  /\ spectrum.obs[k] = u.obs /\ spectrum.freq[k] = u.freq
                  /\ spectrum.points[k] = disk.shape[n + 1 - k]

\* a constructed 2-D analysis whose two dimensions differ
C10_Witness ==
  /\ AfterInit /\ ~Raised(spectrum) /\ spectrum.ndim = 2
  /\ spectrum.label = <<"1H", "15N">>
  /\ spectrum.ppm_ranges[1] # spectrum.ppm_ranges[3]

====
